---- MODULE Spec2Model ----
(***************************************************************************)
(* CSVPlotter (app.ts): CSV loading, Sankey aggregation, layout, the       *)
(* hover/click selection and the split-link highlighting.                  *)
(*                                                                         *)
(* Conventions of the model                                                *)
(*  - A JS string is a sequence of one-character strings; the character    *)
(*    U+2192 (the arrow of the link key) is written ">".                   *)
(*  - A JS number is an exact fraction n/d (d > 0), or one of the IEEE     *)
(*    specials: NaN = 0/0, +Infinity = 1/0, -Infinity = -1/0.  Rounding    *)
(*    of doubles and the sign of zero are not modelled.                    *)
(*  - Array and Map indices are 0-based as in the source; At(s, i) reads   *)
(*    a 0-based index of a sequence.                                       *)
(*  - A file's text is given as its lines, each line as its comma          *)
(*    separated, trimmed cells.                                            *)
(***************************************************************************)
EXTENDS Integers, Sequences, FiniteSets, TLC

\* ------------------------------------------------------------------------
\* JS numbers
\* ------------------------------------------------------------------------
Abs(x) == IF x < 0 THEN -x ELSE x

Sign(x) == IF x < 0 THEN -1 ELSE IF x > 0 THEN 1 ELSE 0

RECURSIVE GCD(_, _)
GCD(a, b) == IF b = 0 THEN a ELSE GCD(b, a % b)

Norm(n, d) ==
    IF d = 0 THEN [n |-> Sign(n), d |-> 0]
    ELSE LET s == IF d < 0 THEN -1 ELSE 1
             g == GCD(Abs(n), Abs(d))
         IN  [n |-> (s * n) \div g, d |-> (s * d) \div g]

Int2Num(i) == [n |-> i, d |-> 1]
Zero == Int2Num(0)
One == Int2Num(1)
NaN == [n |-> 0, d |-> 0]
Infinity == [n |-> 1, d |-> 0]

IsNaN(a) == a.n = 0 /\ a.d = 0
IsFinite(a) == a.d # 0

NumAdd(a, b) ==
    IF IsNaN(a) \/ IsNaN(b) THEN NaN
    ELSE IF a.d = 0 /\ b.d = 0 THEN (IF a.n = b.n THEN a ELSE NaN)
    ELSE IF a.d = 0 THEN a
    ELSE IF b.d = 0 THEN b
    ELSE Norm(a.n * b.d + b.n * a.d, a.d * b.d)

NumNeg(a) == [n |-> -a.n, d |-> a.d]

NumSub(a, b) == NumAdd(a, NumNeg(b))

NumMul(a, b) == Norm(a.n * b.n, a.d * b.d)

NumRecip(a) == IF a.n < 0 THEN [n |-> -a.d, d |-> -a.n] ELSE [n |-> a.d, d |-> a.n]

NumDiv(a, b) == NumMul(a, NumRecip(b))

\* a < b, a > b, a === b of JS: every comparison with NaN is false
NumLt(a, b) ==
    /\ ~IsNaN(a)
    /\ ~IsNaN(b)
    /\ IF a.d = 0 /\ b.d = 0 THEN a.n < b.n ELSE a.n * b.d < b.n * a.d

NumGt(a, b) == NumLt(b, a)

NumEq(a, b) == ~IsNaN(a) /\ ~IsNaN(b) /\ a = b

NumLe(a, b) == NumLt(a, b) \/ NumEq(a, b)

\* ------------------------------------------------------------------------
\* JS strings and sequences
\* ------------------------------------------------------------------------
At(s, i) == s[i + 1]

Indices(s) == 0 .. (Len(s) - 1)

IsPrefix(p, s) == Len(p) <= Len(s) /\ SubSeq(s, 1, Len(p)) = p

RECURSIVE SplitAcc(_, _, _)
SplitAcc(s, sep, cur) ==
    IF s = <<>> THEN <<cur>>
    ELSE IF IsPrefix(sep, s)
         THEN <<cur>> \o SplitAcc(SubSeq(s, Len(sep) + 1, Len(s)), sep, <<>>)
         ELSE SplitAcc(Tail(s), sep, Append(cur, Head(s)))

\* String.prototype.split with a non-empty separator
StrSplit(s, sep) == SplitAcc(s, sep, <<>>)

\* [...new Set(s)]: the distinct elements of s in order of first occurrence
RECURSIVE Distinct(_)
Distinct(s) ==
    IF s = <<>> THEN <<>>
    ELSE LET r == Distinct(SubSeq(s, 1, Len(s) - 1))
             x == s[Len(s)]
         IN  IF \E i \in 1 .. Len(r) : r[i] = x THEN r ELSE Append(r, x)

SeqMap(F(_), s) == [i \in 1 .. Len(s) |-> F(s[i])]

RECURSIVE SumNum(_)
SumNum(s) == IF s = <<>> THEN Zero
             ELSE NumAdd(SumNum(SubSeq(s, 1, Len(s) - 1)), s[Len(s)])

\* ------------------------------------------------------------------------
\* parseFloat on a cell
\* ------------------------------------------------------------------------
DigitVal == [c \in {"0", "1", "2", "3", "4", "5", "6", "7", "8", "9"} |->
               CASE c = "0" -> 0 [] c = "1" -> 1 [] c = "2" -> 2 [] c = "3" -> 3
                 [] c = "4" -> 4 [] c = "5" -> 5 [] c = "6" -> 6 [] c = "7" -> 7
                 [] c = "8" -> 8 [] c = "9" -> 9]

RECURSIVE DigitPrefix(_)
DigitPrefix(s) ==
    IF s = <<>> \/ Head(s) \notin DOMAIN DigitVal THEN <<>>
    ELSE <<Head(s)>> \o DigitPrefix(Tail(s))

RECURSIVE DigitsValue(_)
DigitsValue(ds) == IF ds = <<>> THEN 0
                   ELSE 10 * DigitsValue(SubSeq(ds, 1, Len(ds) - 1)) + DigitVal[ds[Len(ds)]]

\* parseFloat: optional sign, then the longest prefix of digits; NaN when
\* there is no digit (cells with a fraction or an exponent are out of the pools)
parseFloat(s) ==
    LET neg == s # <<>> /\ Head(s) = "-"
        body == IF s # <<>> /\ Head(s) \in {"-", "+"} THEN Tail(s) ELSE s
        ds == DigitPrefix(body)
    IN  IF ds = <<>> THEN NaN
        ELSE Int2Num(IF neg THEN -DigitsValue(ds) ELSE DigitsValue(ds))

\* ------------------------------------------------------------------------
\* parseCSV
\* ------------------------------------------------------------------------
\* the line has no character at all: its only cell is the empty string
IsBlankLine(line) == line = << <<>> >>

DimensionHeadersOf(hdrs) == SubSeq(hdrs, 1, Len(hdrs) - 1)

\* record = { count }; dimensionHeaders.forEach(record[header] = parts[index]):
\* a header that occurs twice keeps the cell of its last occurrence
MakeRecord(hdrs, parts) ==
    LET dh == DimensionHeadersOf(hdrs)
        Last(h) == CHOOSE i \in 1 .. Len(dh) :
                      dh[i] = h /\ \A j \in (i + 1) .. Len(dh) : dh[j] # h
    IN  [count |-> parseFloat(parts[Len(hdrs)]),
         cells |-> [h \in {dh[i] : i \in 1 .. Len(dh)} |-> parts[Last(h)]]]

LineSkipped(hdrs, line) == IsBlankLine(line)

LineWarned(hdrs, line) ==
    /\ ~IsBlankLine(line)
    /\ \/ Len(line) # Len(hdrs)
       \/ IsNaN(parseFloat(line[Len(hdrs)]))

LineAccepted(hdrs, line) == ~LineSkipped(hdrs, line) /\ ~LineWarned(hdrs, line)

\* the outcome of parseCSV(text) when this.headers is oldHeaders: whether it
\* returned, this.headers afterwards, the records returned and the number
\* of console.warn calls
parseCSV(lines, oldHeaders) ==
    IF Len(lines) < 2
    THEN [ok |-> FALSE, headers |-> oldHeaders, records |-> <<>>, warned |-> 0]
    ELSE IF Len(lines[1]) < 2
    THEN [ok |-> FALSE, headers |-> lines[1], records |-> <<>>, warned |-> 0]
    ELSE LET hdrs == lines[1]
             body == Tail(lines)
             good == SelectSeq(body, LAMBDA l : LineAccepted(hdrs, l))
             bad == SelectSeq(body, LAMBDA l : LineWarned(hdrs, l))
         IN  [ok |-> TRUE, headers |-> hdrs,
              records |-> SeqMap(LAMBDA l : MakeRecord(hdrs, l), good),
              warned |-> Len(bad)]

\* ------------------------------------------------------------------------
\* prepareSankeyData
\* ------------------------------------------------------------------------
COLON == <<":">>
ARROW == <<" ", ">", " ">>

NodeId(header, value) == header \o COLON \o value

LinkKey(sourceId, targetId) == sourceId \o ARROW \o targetId

\* the 0-based indices of the records of data that satisfy Test, in order
RecordsWhere(data, Test(_)) ==
    SelectSeq([i \in 1 .. Len(data) |-> i - 1], LAMBDA i : Test(At(data, i)))

CountsAt(data, idxs) == SeqMap(LAMBDA i : At(data, i).count, idxs)

NodesOfDim(data, header, dimIndex) ==
    LET uniqueValues == Distinct(SeqMap(LAMBDA r : r.cells[header], data))
    IN  SeqMap(LAMBDA value :
                 [id |-> NodeId(header, value),
                  label |-> value,
                  header |-> header,
                  value |-> value,
                  dimIndex |-> dimIndex,
                  totalValue |-> SumNum(CountsAt(data,
                      RecordsWhere(data, LAMBDA r : r.cells[header] = value)))],
               uniqueValues)

RECURSIVE NodesUpTo(_, _, _)
NodesUpTo(data, dimensionHeaders, k) ==
    IF k = 0 THEN <<>>
    ELSE NodesUpTo(data, dimensionHeaders, k - 1)
         \o NodesOfDim(data, dimensionHeaders[k], k - 1)

BuildNodes(data, dimensionHeaders) ==
    NodesUpTo(data, dimensionHeaders, Len(dimensionHeaders))

\* nodeMap.set(id, nodeIndex) in node order: the last node of an id wins
BuildNodeMap(nodes) ==
    [id \in {nodes[i].id : i \in 1 .. Len(nodes)} |->
        CHOOSE i \in Indices(nodes) :
            At(nodes, i).id = id /\ \A j \in Indices(nodes) : At(nodes, j).id = id => j <= i]

RecordLinkKey(r, sourceHeader, targetHeader) ==
    LinkKey(NodeId(sourceHeader, r.cells[sourceHeader]),
            NodeId(targetHeader, r.cells[targetHeader]))

\* the links of one adjacent pair of dimensions, in linkMap's insertion order
LinksOfPair(data, nodeMap, sourceHeader, targetHeader) ==
    LET keys == Distinct(SeqMap(LAMBDA r : RecordLinkKey(r, sourceHeader, targetHeader), data))
        Entry(linkKey) ==
            LET recs == RecordsWhere(data,
                            LAMBDA r : RecordLinkKey(r, sourceHeader, targetHeader) = linkKey)
                ids == StrSplit(linkKey, ARROW)
            IN  [sourceNode |-> ids[1],
                 targetNode |-> ids[2],
                 value |-> SumNum(CountsAt(data, recs)),
                 records |-> recs]
        known == SelectSeq(SeqMap(Entry, keys),
                           LAMBDA e : e.sourceNode \in DOMAIN nodeMap
                                      /\ e.targetNode \in DOMAIN nodeMap)
    IN  SeqMap(LAMBDA e : [source |-> nodeMap[e.sourceNode],
                           target |-> nodeMap[e.targetNode],
                           value |-> e.value,
                           records |-> e.records,
                           sourceNode |-> e.sourceNode,
                           targetNode |-> e.targetNode],
               known)

RECURSIVE LinksUpTo(_, _, _, _)
LinksUpTo(data, nodeMap, dimensionHeaders, k) ==
    IF k = 0 THEN <<>>
    ELSE LinksUpTo(data, nodeMap, dimensionHeaders, k - 1)
         \o LinksOfPair(data, nodeMap, dimensionHeaders[k], dimensionHeaders[k + 1])

prepareSankeyData(data, dimensionHeaders) ==
    LET nodes == BuildNodes(data, dimensionHeaders)
        nodeMap == BuildNodeMap(nodes)
    IN  [nodes |-> nodes,
         links |-> LinksUpTo(data, nodeMap, dimensionHeaders, Len(dimensionHeaders) - 1),
         nodeMap |-> nodeMap]

\* ------------------------------------------------------------------------
\* calculatePositions
\* ------------------------------------------------------------------------
width == 800
height == 600
marginTop == 60
marginRight == 60
marginBottom == 40
marginLeft == 60
chartWidth == width - marginLeft - marginRight
chartHeight == height - marginTop - marginBottom
nodePadding == 10
nodeWidth == 30

Max(a, b) == IF a > b THEN a ELSE b

columnWidth(dimensionHeaders) ==
    NumDiv(Int2Num(chartWidth), Int2Num(Max(1, Len(dimensionHeaders) - 1)))

\* nodesByDim.get(dimIndex): the node indices of a dimension, in node order
NodesByDim(nodes, dimIndex) ==
    SelectSeq([i \in 1 .. Len(nodes) |-> i - 1],
              LAMBDA i : At(nodes, i).dimIndex = dimIndex)

totalDimValue(nodes, nodeIndices) ==
    SumNum(SeqMap(LAMBDA i : At(nodes, i).totalValue, nodeIndices))

\* a column height that leaves no room for the paddings
availableHeight_NoPadding(nodeIndices) == Int2Num(chartHeight)

availableHeight(nodeIndices) ==
    Int2Num(chartHeight - (Len(nodeIndices) - 1) * nodePadding)

NodeHeight(nodes, nodeIndices, nodeIndex) ==
    NumMul(NumDiv(At(nodes, nodeIndex).totalValue, totalDimValue(nodes, nodeIndices)),
           availableHeight(nodeIndices))

\* currentY when the k-th node (1-based) of the column is placed
RECURSIVE CurrentY(_, _, _)
CurrentY(nodes, nodeIndices, k) ==
    IF k = 1 THEN Zero
    ELSE NumAdd(CurrentY(nodes, nodeIndices, k - 1),
                NumAdd(NodeHeight(nodes, nodeIndices, nodeIndices[k - 1]),
                       Int2Num(nodePadding)))

NodePositions(nodes, dimensionHeaders) ==
    [nodeIndex \in Indices(nodes) |->
        LET dimIndex == At(nodes, nodeIndex).dimIndex
            nodeIndices == NodesByDim(nodes, dimIndex)
            k == CHOOSE j \in 1 .. Len(nodeIndices) : nodeIndices[j] = nodeIndex
        IN  [x |-> NumMul(Int2Num(dimIndex), columnWidth(dimensionHeaders)),
             y |-> CurrentY(nodes, nodeIndices, k),
             height |-> NodeHeight(nodes, nodeIndices, nodeIndex)]]

nodeOutgoingLinks(links, nodeIndex) ==
    SelectSeq([i \in 1 .. Len(links) |-> i - 1],
              LAMBDA i : At(links, i).source = nodeIndex)

nodeIncomingLinks(links, nodeIndex) ==
    SelectSeq([i \in 1 .. Len(links) |-> i - 1],
              LAMBDA i : At(links, i).target = nodeIndex)

linkSourceHeights(nodes, links, nodePositions, linkIndex) ==
    LET link == At(links, linkIndex)
    IN  NumMul(NumDiv(link.value, At(nodes, link.source).totalValue),
               nodePositions[link.source].height)

linkTargetHeights(nodes, links, nodePositions, linkIndex) ==
    LET link == At(links, linkIndex)
    IN  NumMul(NumDiv(link.value, At(nodes, link.target).totalValue),
               nodePositions[link.target].height)

\* Array.prototype.sort((a, b) => key[a] - key[b]): a stable insertion
\* sort; a comparator result of NaN counts as 0
RECURSIVE InsertSorted(_, _, _)
InsertSorted(sorted, x, key) ==
    IF sorted = <<>> THEN <<x>>
    ELSE LET last == sorted[Len(sorted)]
         IN  IF NumGt(NumSub(key[last], key[x]), Zero)
             THEN Append(InsertSorted(SubSeq(sorted, 1, Len(sorted) - 1), x, key), last)
             ELSE Append(sorted, x)

\* a sort that leaves links of equal key in the reverse of their order
RECURSIVE SortBy_TiesReversed(_, _)
SortBy_TiesReversed(s, key) ==
    IF s = <<>> THEN <<>>
    ELSE InsertSorted(SortBy_TiesReversed(Tail(s), key), Head(s), key)

RECURSIVE SortBy(_, _)
SortBy(s, key) ==
    IF s = <<>> THEN <<>>
    ELSE InsertSorted(SortBy(SubSeq(s, 1, Len(s) - 1), key), s[Len(s)], key)

MapSet(m, key, val) == (key :> val) @@ m

\* outgoingLinks.forEach: linkPositions.set(linkIndex, {...}) along currentSourceY
RECURSIVE PlaceOutgoing(_, _, _, _, _)
PlaceOutgoing(lp, outgoingLinks, currentSourceY, srcH, tgtH) ==
    IF outgoingLinks = <<>> THEN lp
    ELSE LET linkIndex == Head(outgoingLinks)
             entry == [sourceY |-> currentSourceY,
                       targetY |-> Zero,
                       height |-> srcH[linkIndex],
                       sourceHeight |-> srcH[linkIndex],
                       targetHeight |-> tgtH[linkIndex]]
         IN  PlaceOutgoing(MapSet(lp, linkIndex, entry), Tail(outgoingLinks),
                           NumAdd(currentSourceY, srcH[linkIndex]), srcH, tgtH)

\* incomingLinks.forEach: linkData.targetY = currentTargetY, or a new entry
RECURSIVE PlaceIncoming(_, _, _, _)
PlaceIncoming(lp, incomingLinks, currentTargetY, tgtH) ==
    IF incomingLinks = <<>> THEN lp
    ELSE LET linkIndex == Head(incomingLinks)
             entry == IF linkIndex \in DOMAIN lp
                      THEN [lp[linkIndex] EXCEPT !.targetY = currentTargetY]
                      ELSE [sourceY |-> Zero,
                            targetY |-> currentTargetY,
                            height |-> tgtH[linkIndex],
                            sourceHeight |-> tgtH[linkIndex],
                            targetHeight |-> tgtH[linkIndex]]
         IN  PlaceIncoming(MapSet(lp, linkIndex, entry), Tail(incomingLinks),
                           NumAdd(currentTargetY, tgtH[linkIndex]), tgtH)

\* nodes.forEach of the link placement, for the first k nodes
RECURSIVE PlaceLinks(_, _, _, _)
PlaceLinks(nodes, links, nodePositions, k) ==
    IF k = 0 THEN << >>
    ELSE LET nodeIndex == k - 1
             before == PlaceLinks(nodes, links, nodePositions, k - 1)
             srcH == [i \in Indices(links) |->
                         linkSourceHeights(nodes, links, nodePositions, i)]
             tgtH == [i \in Indices(links) |->
                         linkTargetHeights(nodes, links, nodePositions, i)]
             outgoingLinks == SortBy(nodeOutgoingLinks(links, nodeIndex),
                 [i \in Indices(links) |-> nodePositions[At(links, i).target].y])
             incomingLinks == SortBy(nodeIncomingLinks(links, nodeIndex),
                 [i \in Indices(links) |-> nodePositions[At(links, i).source].y])
             placedOut == PlaceOutgoing(before, outgoingLinks,
                                        nodePositions[nodeIndex].y, srcH, tgtH)
         IN  PlaceIncoming(placedOut, incomingLinks, nodePositions[nodeIndex].y, tgtH)

calculatePositions(nodeData, dimensionHeaders) ==
    LET nodePositions == NodePositions(nodeData.nodes, dimensionHeaders)
    IN  [nodePositions |-> nodePositions,
         linkPositions |-> PlaceLinks(nodeData.nodes, nodeData.links, nodePositions,
                                      Len(nodeData.nodes))]

\* ------------------------------------------------------------------------
\* drawLinks, getStoredLinkPositions, parsePathData
\* ------------------------------------------------------------------------
\* x < 10^-6 for a finite x > 0
BelowMicro(x) == x.n <= (x.d - 1) \div 1000000

\* `${x}` of a number: plain decimal digits ("12.5"), or a text that carries
\* a sign ("-3", "-Infinity"), an exponent ("4.9e-7") or a word ("NaN",
\* "Infinity"); value is the number the text denotes
NumberToString(x) ==
    [form |-> IF IsNaN(x) THEN "word"
              ELSE IF x.n < 0 THEN "signed"
              ELSE IF ~IsFinite(x) THEN "word"
              ELSE IF x.n > 0 /\ BelowMicro(x) THEN "exponent"
              ELSE "decimal",
     value |-> x]

\* the text matches [\d.]+
IsDigitsAndDots(t) == t.form = "decimal"

\* the d attribute of a link's path: "M sx sy1 L tx ty1 L tx ty2 L sx sy2 Z"
PathData(sourceX, sourceY1, targetX, targetY1, targetY2, sourceY2) ==
    [sourceX |-> NumberToString(sourceX),
     sourceY1 |-> NumberToString(sourceY1),
     targetX |-> NumberToString(targetX),
     targetY1 |-> NumberToString(targetY1),
     targetY2 |-> NumberToString(targetY2),
     sourceY2 |-> NumberToString(sourceY2)]

LinkPathData(link, nodePositions, linkPos) ==
    PathData(NumAdd(nodePositions[link.source].x, Int2Num(nodeWidth)),
             linkPos.sourceY,
             nodePositions[link.target].x,
             linkPos.targetY,
             NumAdd(linkPos.targetY, linkPos.targetHeight),
             NumAdd(linkPos.sourceY, linkPos.sourceHeight))

\* the .link elements in document order, each with its data-link-index
drawLinks(nodeData, nodePositions, linkPositions) ==
    LET drawn == SelectSeq([i \in 1 .. Len(nodeData.links) |-> i - 1],
                     LAMBDA i : /\ At(nodeData.links, i).source \in DOMAIN nodePositions
                                /\ At(nodeData.links, i).target \in DOMAIN nodePositions
                                /\ i \in DOMAIN linkPositions)
    IN  SeqMap(LAMBDA i : [linkIndex |-> i,
                           d |-> LinkPathData(At(nodeData.links, i), nodePositions,
                                              linkPositions[i])],
               drawn)

\* the regular expression of parsePathData matches: each of the eight
\* numbers is a run of digits and dots followed by white space (an exponent
\* text in the last place would match by its mantissa; coordinates that small
\* do not occur in the pools)
PathMatches(d) ==
    /\ IsDigitsAndDots(d.sourceX)
    /\ IsDigitsAndDots(d.sourceY1)
    /\ IsDigitsAndDots(d.targetX)
    /\ IsDigitsAndDots(d.targetY1)
    /\ IsDigitsAndDots(d.targetY2)
    /\ IsDigitsAndDots(d.sourceY2)

\* parseFloat of each capture; only used when PathMatches(d)
parsePathData(d) ==
    [sourceX |-> d.sourceX.value,
     sourceY1 |-> d.sourceY1.value,
     targetX |-> d.targetX.value,
     targetY1 |-> d.targetY1.value,
     targetY2 |-> d.targetY2.value,
     sourceY2 |-> d.sourceY2.value]

\* a Map from the element index to the positions read back from the path
getStoredLinkPositions(elements) ==
    [index \in {i \in Indices(elements) : PathMatches(At(elements, i).d)} |->
        LET coords == parsePathData(At(elements, index).d)
        IN  [sourceY |-> coords.sourceY1,
             targetY |-> coords.targetY1,
             sourceHeight |-> NumSub(coords.sourceY2, coords.sourceY1),
             targetHeight |-> NumSub(coords.targetY2, coords.targetY1)]]

\* ------------------------------------------------------------------------
\* updateLinkHighlights, drawSplitLink, resetCustomLinkColors
\* ------------------------------------------------------------------------
\* what is shown for one .link element: the fill of the path itself and
\* the .split-link-gold and .split-link-gray paths inserted after it
BaseShown == [fill |-> "base", gold |-> <<>>, gray |-> <<>>]

\* a reset that restores the fills and leaves the split paths in place
resetCustomLinkColors_KeepsOverlays(shown) ==
    [i \in 1 .. Len(shown) |-> [shown[i] EXCEPT !.fill = "base"]]

\* every split path removed, every .link path back to its base fill
resetCustomLinkColors(shown) == [i \in 1 .. Len(shown) |-> BaseShown]

\* selectedByDimension: header -> the selected values of that header
selectedByDimension(nodes, selected) ==
    [header \in {At(nodes, i).header : i \in selected} |->
        {At(nodes, i).value : i \in {j \in selected : At(nodes, j).header = header}}]

CellOf(record, header) ==
    IF header \in DOMAIN record.cells THEN record.cells[header] ELSE <<"undefined">>

HasCell(record, header, value) ==
    header \in DOMAIN record.cells /\ record.cells[header] = value

\* a filter that is satisfied by one dimension with a selected value
matchesSelection_AnyDimension(record, byDim) ==
    \E header \in DOMAIN byDim :
        \E value \in byDim[header] : HasCell(record, header, value)

matchesSelection(record, byDim) ==
    \A header \in DOMAIN byDim :
        \E value \in byDim[header] : HasCell(record, header, value)

matchesLink(record, nodes, link) ==
    /\ HasCell(record, At(nodes, link.source).header, At(nodes, link.source).value)
    /\ HasCell(record, At(nodes, link.target).header, At(nodes, link.target).value)

matchingCount(data, nodes, link, byDim) ==
    SumNum(CountsAt(data, RecordsWhere(data,
        LAMBDA r : matchesLink(r, nodes, link) /\ matchesSelection(r, byDim))))

linkProportions(data, nodes, links, selected, linkIndex) ==
    LET link == At(links, linkIndex)
        mc == matchingCount(data, nodes, link, selectedByDimension(nodes, selected))
    IN  IF NumGt(mc, Zero) THEN NumDiv(mc, link.value) ELSE Zero

\* the gold and gray paths of drawSplitLink
goldPath(sourceX, targetX, linkPos, proportion) ==
    LET sourceY1 == linkPos.sourceY
        sourceY2 == NumAdd(linkPos.sourceY, linkPos.sourceHeight)
        targetY1 == linkPos.targetY
        targetY2 == NumAdd(linkPos.targetY, linkPos.targetHeight)
        goldTargetSplit == NumAdd(targetY1, NumMul(NumSub(targetY2, targetY1), proportion))
        goldSourceSplit == NumAdd(sourceY1, NumMul(NumSub(sourceY2, sourceY1), proportion))
    IN  PathData(sourceX, sourceY1, targetX, targetY1, goldTargetSplit, goldSourceSplit)

grayPath(sourceX, targetX, linkPos, proportion) ==
    LET sourceY1 == linkPos.sourceY
        sourceY2 == NumAdd(linkPos.sourceY, linkPos.sourceHeight)
        targetY1 == linkPos.targetY
        targetY2 == NumAdd(linkPos.targetY, linkPos.targetHeight)
        goldTargetSplit == NumAdd(targetY1, NumMul(NumSub(targetY2, targetY1), proportion))
        goldSourceSplit == NumAdd(sourceY1, NumMul(NumSub(sourceY2, sourceY1), proportion))
    IN  PathData(sourceX, goldSourceSplit, targetX, goldTargetSplit, targetY2, sourceY2)

\* what drawSplitLink leaves for the element at index, shown as before
drawSplitLink(before, link, nodePositions, storedPositions, proportion, index) ==
    IF \/ link.source \notin DOMAIN nodePositions
       \/ link.target \notin DOMAIN nodePositions
       \/ index \notin DOMAIN storedPositions
    THEN before
    ELSE LET sourceX == NumAdd(nodePositions[link.source].x, Int2Num(nodeWidth))
             targetX == nodePositions[link.target].x
             linkPos == storedPositions[index]
         IN  [fill |-> "none",
              gold |-> Append(before.gold, goldPath(sourceX, targetX, linkPos, proportion)),
              gray |-> IF NumLt(proportion, One)
                       THEN Append(before.gray, grayPath(sourceX, targetX, linkPos, proportion))
                       ELSE before.gray]

\* nodes[index] is undefined for a selected index: node.header throws
SelectionThrows(nodes, selected) == \E i \in selected : i \notin Indices(nodes)

\* the shown state of every .link element after updateLinkHighlights
updateLinkHighlights(shown, data, nodeData, nodePositions, elements, selected) ==
    LET reset == resetCustomLinkColors(shown)
        nodes == nodeData.nodes
        links == nodeData.links
        stored == getStoredLinkPositions(elements)
        Prop(index) ==
            LET p == IF index \in Indices(links)
                     THEN linkProportions(data, nodes, links, selected, index)
                     ELSE Zero
            IN  IF IsNaN(p) THEN Zero ELSE p
    IN  IF selected = {} \/ SelectionThrows(nodes, selected) THEN reset
        ELSE [i \in 1 .. Len(elements) |->
                 LET index == i - 1
                 IN  IF NumGt(Prop(index), Zero)
                     THEN drawSplitLink(reset[i], At(links, index), nodePositions,
                                        stored, Prop(index), index)
                     ELSE [reset[i] EXCEPT !.fill = "faded"]]

\* ------------------------------------------------------------------------
\* generatePlot, createSankeyDiagram
\* ------------------------------------------------------------------------
NoNodeData == [nodes |-> <<>>, links |-> <<>>]

\* the plot container as index.html and clearData leave it
Placeholder ==
    [kind |-> "placeholder", nodeData |-> NoNodeData, nodePositions |-> <<>>,
     linkPositions |-> <<>>, elements |-> <<>>, shown |-> <<>>]

createBarChart(data, dimensionHeaders) == [Placeholder EXCEPT !.kind = "bar"]

\* the svg: the node data and node positions the listeners close over, the
\* link positions of the layout, the .link elements and what they show
createSankeyDiagram(data, dimensionHeaders) ==
    LET full == prepareSankeyData(data, dimensionHeaders)
        nodeData == [nodes |-> full.nodes, links |-> full.links]
        pos == calculatePositions(nodeData, dimensionHeaders)
        elements == drawLinks(nodeData, pos.nodePositions, pos.linkPositions)
    IN  [kind |-> "sankey",
         nodeData |-> nodeData,
         nodePositions |-> pos.nodePositions,
         linkPositions |-> pos.linkPositions,
         elements |-> elements,
         shown |-> [i \in 1 .. Len(elements) |-> BaseShown]]

\* a plot that takes every dataset to the Sankey diagram
generatePlot_AlwaysSankey(data, hdrs) ==
    createSankeyDiagram(data, DimensionHeadersOf(hdrs))

generatePlot(data, hdrs) ==
    LET dimensionHeaders == DimensionHeadersOf(hdrs)
    IN  IF Len(dimensionHeaders) >= 2
        THEN createSankeyDiagram(data, dimensionHeaders)
        ELSE createBarChart(data, dimensionHeaders)

\* ------------------------------------------------------------------------
\* The application state
\* ------------------------------------------------------------------------
VARIABLES
    file,           \* fileInput.files[0]: the lines of the chosen file, or NoFile
    pending,        \* the texts of the reads started by processCSV and not yet done
    csvData,        \* this.csvData
    headers,        \* this.headers
    selectedNodes,  \* this.selectedNodes
    clickedNodes,   \* this.clickedNodes
    view,           \* the content of plotContainer
    pointer         \* the node the pointer is over, or NoNode

vars == <<file, pending, csvData, headers, selectedNodes, clickedNodes, view, pointer>>

NoFile == <<>>
NoNode == -1

\* bounds of the model
MaxPending == 1
MaxPinned == 2

RemoveAt(s, i) == SubSeq(s, 1, i - 1) \o SubSeq(s, i + 1, Len(s))

InitApp ==
    /\ file = NoFile
    /\ pending = <<>>
    /\ csvData = <<>>
    /\ headers = <<>>
    /\ selectedNodes = {}
    /\ clickedNodes = {}
    /\ view = Placeholder
    /\ pointer = NoNode

handleFileSelect(f) ==
    /\ file' = f
    /\ UNCHANGED <<pending, csvData, headers, selectedNodes, clickedNodes, view, pointer>>

\* processCSV up to its await: the read of the chosen file starts
processCSV ==
    /\ file # NoFile
    /\ Len(pending) < MaxPending
    /\ pending' = Append(pending, file)
    /\ UNCHANGED <<file, csvData, headers, selectedNodes, clickedNodes, view, pointer>>

\* processCSV after its await: reader.onload of one of the started reads
readFileAsText(i) ==
    /\ i \in 1 .. Len(pending)
    /\ pending' = RemoveAt(pending, i)
    /\ LET r == parseCSV(pending[i], headers)
       IN  /\ headers' = r.headers
           /\ IF r.ok
              THEN /\ csvData' = r.records
                   /\ view' = generatePlot(r.records, r.headers)
                   /\ pointer' = NoNode
              ELSE UNCHANGED <<csvData, view, pointer>>
    /\ UNCHANGED <<file, selectedNodes, clickedNodes>>

clearData ==
    /\ csvData' = <<>>
    /\ headers' = <<>>
    /\ selectedNodes' = {}
    /\ clickedNodes' = {}
    /\ file' = NoFile
    /\ view' = Placeholder
    /\ pointer' = NoNode
    /\ UNCHANGED pending

NodeGroups == IF view.kind = "sankey" THEN Indices(view.nodeData.nodes) ELSE {}

\* what the .link elements of v show after updateLinkHighlights
ShownFor(v, data, selected) ==
    updateLinkHighlights(v.shown, data, v.nodeData, v.nodePositions, v.elements, selected)

\* a recomputation that leaves each link the matching ones of its records only
Highlighted_KeepsMatching(selected) ==
    LET nodes == view.nodeData.nodes
        links == view.nodeData.links
        byDim == selectedByDimension(nodes, selected)
    IN  [view EXCEPT
            !.shown = ShownFor(view, csvData, selected),
            !.nodeData.links =
                [i \in 1 .. Len(links) |->
                    [links[i] EXCEPT !.records =
                        SelectSeq(links[i].records,
                                  LAMBDA r : matchesSelection(At(csvData, r), byDim))]]]

Highlighted(selected) == [view EXCEPT !.shown = ShownFor(view, csvData, selected)]

\* this.selectedNodes after handleNodeHover
handleNodeHover(selected, nodeIndex) ==
    IF nodeIndex \notin selected THEN selected \cup {nodeIndex} ELSE selected

\* an unhover that forgets the clicked set
handleNodeUnhover_Always(selected, clicked, nodeIndex) ==
    selected \ {nodeIndex}

\* this.selectedNodes after handleNodeUnhover
handleNodeUnhover(selected, clicked, nodeIndex) ==
    IF nodeIndex \in selected /\ nodeIndex \notin clicked
    THEN selected \ {nodeIndex}
    ELSE selected

\* a hover that pins the node it enters
mouseenter_Pins(nodeIndex) ==
    /\ nodeIndex \in NodeGroups
    /\ pointer = NoNode
    /\ pointer' = nodeIndex
    /\ selectedNodes' = handleNodeHover(selectedNodes, nodeIndex)
    /\ clickedNodes' = clickedNodes \cup {nodeIndex}
    /\ view' = Highlighted(selectedNodes')
    /\ UNCHANGED <<file, pending, csvData, headers>>

\* the mouseenter listener of a node group
mouseenter(nodeIndex) ==
    /\ nodeIndex \in NodeGroups
    /\ pointer = NoNode
    /\ pointer' = nodeIndex
    /\ selectedNodes' = handleNodeHover(selectedNodes, nodeIndex)
    /\ view' = Highlighted(selectedNodes')
    /\ UNCHANGED <<file, pending, csvData, headers, clickedNodes>>

\* the mouseleave listener of a node group
mouseleave(nodeIndex) ==
    /\ nodeIndex \in NodeGroups
    /\ pointer = nodeIndex
    /\ pointer' = NoNode
    /\ selectedNodes' = handleNodeUnhover(selectedNodes, clickedNodes, nodeIndex)
    /\ UNCHANGED <<file, pending, csvData, headers, clickedNodes, view>>

\* a toggle that decides by the selected set instead of the clicked set
toggleNodeSelection_BySelected(selected, clicked, nodeIndex) ==
    IF nodeIndex \in selected
    THEN [clicked |-> clicked \ {nodeIndex}, selected |-> selected \ {nodeIndex}]
    ELSE [clicked |-> clicked \cup {nodeIndex}, selected |-> selected \cup {nodeIndex}]

\* a toggle whose unpinning leaves the selected set alone
toggleNodeSelection_KeepSelected(selected, clicked, nodeIndex) ==
    IF nodeIndex \in clicked
    THEN [clicked |-> clicked \ {nodeIndex}, selected |-> selected]
    ELSE [clicked |-> clicked \cup {nodeIndex}, selected |-> selected \cup {nodeIndex}]

\* this.clickedNodes and this.selectedNodes after toggleNodeSelection
toggleNodeSelection(selected, clicked, nodeIndex) ==
    IF nodeIndex \in clicked
    THEN [clicked |-> clicked \ {nodeIndex}, selected |-> selected \ {nodeIndex}]
    ELSE [clicked |-> clicked \cup {nodeIndex}, selected |-> selected \cup {nodeIndex}]

\* the click listener of a node group
click(nodeIndex) ==
    /\ nodeIndex \in NodeGroups
    /\ pointer = nodeIndex
    /\ nodeIndex \in clickedNodes \/ Cardinality(clickedNodes) < MaxPinned
    /\ clickedNodes' = toggleNodeSelection(selectedNodes, clickedNodes, nodeIndex).clicked
    /\ selectedNodes' = toggleNodeSelection(selectedNodes, clickedNodes, nodeIndex).selected
    /\ view' = Highlighted(selectedNodes')
    /\ UNCHANGED <<file, pending, csvData, headers, pointer>>

\* a double click that leaves the clicked set alone
clearAllSelections_KeepsClicked ==
    /\ view.kind = "sankey"
    /\ selectedNodes' = {}
    /\ view' = [view EXCEPT !.shown = resetCustomLinkColors(view.shown)]
    /\ UNCHANGED <<file, pending, csvData, headers, pointer, clickedNodes>>

\* the dblclick listener of the svg
clearAllSelections ==
    /\ view.kind = "sankey"
    /\ selectedNodes' = {}
    /\ clickedNodes' = {}
    /\ view' = [view EXCEPT !.shown = resetCustomLinkColors(view.shown)]
    /\ UNCHANGED <<file, pending, csvData, headers, pointer>>

\* ------------------------------------------------------------------------
\* Files
\* ------------------------------------------------------------------------
Region == <<"Region">>
Product == <<"Product">>
Category == <<"Category">>
Sales == <<"Sales">>
North == <<"North">>
South == <<"South">>
Laptop == <<"Laptop">>
Phone == <<"Phone">>

\* the dataset of the specification's scenarios
ScenarioFile ==
    << <<Region, Product, Sales>>,
       <<North, Laptop, <<"1", "5", "0">> >>,
       <<South, Phone, <<"1", "2", "0">> >>,
       <<North, Phone, <<"3", "0">> >> >>

\* three dimensions, one link fed by records of two categories
ThreeDimFile ==
    << <<Region, Product, Category, Sales>>,
       <<North, Laptop, <<"a">>, <<"2">> >>,
       <<North, Laptop, <<"b">>, <<"1">> >>,
       <<South, Laptop, <<"a">>, <<"1">> >> >>

\* one dimension: the bar chart
OneDimFile ==
    << <<Region, Sales>>, <<North, <<"5">> >>, <<South, <<"7">> >> >>

\* a header row and nothing else
HeaderOnlyFile == << <<Region, Product, Sales>> >>

\* a single column
OneColumnFile == << <<Sales>>, << <<"5">> >> >>

\* a short line, a blank line and a count that is no number among good lines
RaggedFile ==
    << <<Region, Product, Sales>>,
       <<North, Laptop, <<"4">> >>,
       <<North, Laptop>>,
       << <<>> >>,
       <<South, Phone, <<"x">> >>,
       <<South, Laptop, <<"6">> >> >>

Files == {ScenarioFile, RaggedFile, OneColumnFile, OneDimFile}

\* ------------------------------------------------------------------------
\* The application
\* ------------------------------------------------------------------------
Init == InitApp

Next ==
    \/ \E f \in Files \cup {NoFile} : handleFileSelect(f)
    \/ processCSV
    \/ \E i \in 1 .. MaxPending : readFileAsText(i)
    \/ clearData
    \/ \E n \in NodeGroups : mouseenter(n)
    \/ \E n \in NodeGroups : mouseleave(n)
    \/ \E n \in NodeGroups : click(n)
    \/ clearAllSelections

Spec == Init /\ [][Next]_vars

\* ------------------------------------------------------------------------
\* Selection and highlighting of the running application
\* ------------------------------------------------------------------------

\* C2 (as claimed): whenever a handler has changed the selection, every link
\* shows the highlight computed from the selection as the handler left it
C2_HighlightsFollowSelection ==
    [][(selectedNodes' # selectedNodes /\ view'.kind = "sankey")
         => view'.shown = ShownFor(view', csvData', selectedNodes')]_vars

TwiceToggled(selected, clicked, x) ==
    LET once == toggleNodeSelection(selected, clicked, x)
    IN  toggleNodeSelection(once.selected, once.clicked, x)

C11_LeaveKeepsPinned ==
    [][\A n \in NodeGroups :
          /\ mouseleave(n) =>
                /\ clickedNodes' = clickedNodes
                /\ (n \in selectedNodes') <=> (n \in clickedNodes)
                /\ selectedNodes' \ {n} = selectedNodes \ {n}
          /\ (mouseenter(n) /\ n \in clickedNodes) =>
                /\ clickedNodes' = clickedNodes
                /\ selectedNodes' = selectedNodes]_vars

\* the pointer has left the diagram, a pinned node is still selected and no
\* other node is
C11_Witness ==
    /\ Cardinality(NodeGroups) > 1
    /\ pointer = NoNode
    /\ clickedNodes # {}
    /\ selectedNodes = clickedNodes

\* C12: the double click on the diagram and the clear button each leave the
\* pinned set and the selection empty, whatever was hovered or pinned before
C12_ClearEmptiesBoth ==
    [][(clearAllSelections \/ clearData) =>
          (selectedNodes' = {} /\ clickedNodes' = {})]_vars

\* both sets are empty while the pointer is over a node, as a double click
\* on a hovered node leaves them
C12_Witness ==
    /\ pointer \in NodeGroups
    /\ selectedNodes = {}
    /\ clickedNodes = {}

MaxRecords == 2

CatA == <<"a">>
CatB == <<"b">>

\* a Region cell that contains the separator of the link key, followed by
\* the id of a Product node
ArrowValue == <<"North", " ", ">", " ", "Product", ":", "Laptop">>

\* count cells: zero, positive, negative
CountCells == {<<"0">>, <<"1">>, <<"2">>, <<"-", "1">>}

TwoDimRows ==
    {<<r, p, w>> : r \in {North, South, ArrowValue}, p \in {Laptop, Phone}, w \in CountCells}

ThreeDimRows ==
    {<<r, p, c, w>> : r \in {North, South}, p \in {Laptop, Phone}, c \in {CatA, CatB},
                      w \in {<<"1">>, <<"2">>}}

\* lines with an empty Product cell, without a Sales cell and with a Sales
\* cell that is no number, next to a blank line and a good line
LooseRows ==
    {<<North, <<>>, <<"1">> >>, <<North, Laptop>>, <<North, Laptop, <<"x">> >>,
     << <<>> >>, <<South, Phone, <<"2">> >>}

\* lines of a file with one dimension column
OneDimRows == {<<North, <<"1">> >>, <<South, <<"2">> >>}

SeqsUpTo(S, n) == UNION {[1 .. k -> S] : k \in 1 .. n}

DataFiles ==
    {<< <<Region, Product, Sales>> >> \o rows : rows \in SeqsUpTo(TwoDimRows, MaxRecords)}
    \cup
    {<< <<Region, Product, Sales>> >> \o rows : rows \in SeqsUpTo(LooseRows, MaxRecords)}
    \cup
    {<< <<Region, Product, Category, Sales>> >> \o rows :
        rows \in SeqsUpTo(ThreeDimRows, MaxRecords)}
    \cup
    {<< <<Region, Sales>> >> \o rows : rows \in SeqsUpTo(OneDimRows, MaxRecords)}
    \cup
    {OneColumnFile}

InitLoad ==
    /\ file \in DataFiles
    /\ pending = <<>>
    /\ csvData = <<>>
    /\ headers = <<>>
    /\ selectedNodes = {}
    /\ clickedNodes = {}
    /\ view = Placeholder
    /\ pointer = NoNode

NextLoad ==
    \/ processCSV
    \/ \E i \in 1 .. MaxPending : readFileAsText(i)

\* the chosen file is read, parsed, aggregated, laid out and drawn
SpecLoad == InitLoad /\ [][NextLoad]_vars

\* ------------------------------------------------------------------------
\* Aggregation and layout of a loaded dataset
\* ------------------------------------------------------------------------
Nodes == view.nodeData.nodes
Links == view.nodeData.links
Rendered == view.kind = "sankey"
DimensionHeaders == DimensionHeadersOf(headers)
PositiveWeights == \A r \in Indices(csvData) : NumGt(At(csvData, r).count, Zero)

OutgoingOf(n) == nodeOutgoingLinks(Links, n)
IncomingOf(n) == nodeIncomingLinks(Links, n)

\* C3 (as claimed): the source-side heights of a node's outgoing links add
\* up to the node's height, and so do the target-side heights of its
\* incoming links
C3_HeightConservation ==
    Rendered =>
        \A n \in Indices(Nodes) :
            /\ OutgoingOf(n) # <<>> =>
                 NumEq(SumNum(SeqMap(LAMBDA i : view.linkPositions[i].sourceHeight, OutgoingOf(n))),
                       view.nodePositions[n].height)
            /\ IncomingOf(n) # <<>> =>
                 NumEq(SumNum(SeqMap(LAMBDA i : view.linkPositions[i].targetHeight, IncomingOf(n))),
                       view.nodePositions[n].height)

SetOfSeq(s) == {s[i] : i \in 1 .. Len(s)}

LinkValues(linkIndices) == SumNum(SeqMap(LAMBDA i : At(Links, i).value, linkIndices))

\* the records whose cells under the headers of the link's two nodes are
\* the values of those nodes
RecordsOfEndpoints(link) ==
    RecordsWhere(csvData, LAMBDA r : matchesLink(r, Nodes, link))

\* the records that carry the node's value under the node's header
RecordsOfNode(node) ==
    RecordsWhere(csvData, LAMBDA r : HasCell(r, node.header, node.value))

\* C4 (as claimed, for datasets of positive weights): the weights of a
\* node's outgoing links add up to the node's weight unless the node is in
\* the last dimension, those of its incoming links unless it is in the first;
\* every record counts for one node of each dimension and one link of each
\* adjacent pair of dimensions
C4_WeightConservation ==
    (Rendered /\ PositiveWeights) =>
        /\ \A n \in Indices(Nodes) :
            /\ At(Nodes, n).dimIndex < Len(DimensionHeaders) - 1 =>
                 NumEq(LinkValues(OutgoingOf(n)), At(Nodes, n).totalValue)
            /\ At(Nodes, n).dimIndex > 0 =>
                 NumEq(LinkValues(IncomingOf(n)), At(Nodes, n).totalValue)
        /\ \A r \in Indices(csvData) :
            /\ \A d \in Indices(DimensionHeaders) :
                 Cardinality({n \in Indices(Nodes) :
                                /\ At(Nodes, n).dimIndex = d
                                /\ r \in SetOfSeq(RecordsOfNode(At(Nodes, n)))}) = 1
            /\ \A d \in 0 .. (Len(DimensionHeaders) - 2) :
                 Cardinality({i \in Indices(Links) :
                                /\ At(Nodes, At(Links, i).source).dimIndex = d
                                /\ r \in SetOfSeq(At(Links, i).records)}) = 1

\* C5 (as claimed, for datasets of positive weights): a link retains exactly
\* the records that carry its source value and its target value in the two
\* dimensions, and its weight is the sum of their weights; a node's weight is
\* the sum of the weights of the records that carry its value in its dimension
C5_WeightCorrectness ==
    (Rendered /\ PositiveWeights) =>
        /\ \A i \in Indices(Links) :
            /\ At(Links, i).records = RecordsOfEndpoints(At(Links, i))
            /\ NumEq(At(Links, i).value,
                     SumNum(CountsAt(csvData, RecordsOfEndpoints(At(Links, i)))))
        /\ \A n \in Indices(Nodes) :
            NumEq(At(Nodes, n).totalValue,
                  SumNum(CountsAt(csvData, RecordsOfNode(At(Nodes, n)))))

\* the cell of record r (an index) in dimension d
ValueAt(r, d) == CellOf(At(csvData, r), At(DimensionHeaders, d))

\* the index of the first record that has value v in dimension d
FirstRecord(d, v) ==
    CHOOSE r \in Indices(csvData) :
        /\ ValueAt(r, d) = v
        /\ \A q \in Indices(csvData) : ValueAt(q, d) = v => r <= q

\* the pairs of values that some record has in the dimensions d and d + 1
PairsOf(d) == {<<ValueAt(r, d), ValueAt(r, d + 1)>> : r \in Indices(csvData)}

\* the links that join the node of value sv in dimension d to the node of
\* value tv in dimension d + 1
LinksOfValues(d, sv, tv) ==
    {i \in Indices(Links) :
        /\ At(Nodes, At(Links, i).source).dimIndex = d
        /\ At(Nodes, At(Links, i).source).value = sv
        /\ At(Nodes, At(Links, i).target).dimIndex = d + 1
        /\ At(Nodes, At(Links, i).target).value = tv}

\* C13 (as claimed, for datasets of positive weights): every dimension has
\* one node per value that occurs in it, in the order in which the values
\* first occur in the records; every pair of values that a record has in two
\* adjacent dimensions has exactly one link, and every link joins such a pair
\* of adjacent dimensions
C13_OneNodeOneLink ==
    (Rendered /\ PositiveWeights) =>
        /\ \A d \in Indices(DimensionHeaders) :
             LET column == NodesByDim(Nodes, d)
             IN  /\ {At(Nodes, column[k]).value : k \in 1 .. Len(column)}
                       = {ValueAt(r, d) : r \in Indices(csvData)}
                 /\ \A j, k \in 1 .. Len(column) :
                       j < k => FirstRecord(d, At(Nodes, column[j]).value)
                                  < FirstRecord(d, At(Nodes, column[k]).value)
        /\ \A n \in Indices(Nodes) : At(Nodes, n).dimIndex \in Indices(DimensionHeaders)
        /\ \A d \in 0 .. (Len(DimensionHeaders) - 2) :
             \A pair \in PairsOf(d) : Cardinality(LinksOfValues(d, pair[1], pair[2])) = 1
        /\ \A i \in Indices(Links) :
             LET source == At(Nodes, At(Links, i).source)
                 target == At(Nodes, At(Links, i).target)
             IN  /\ target.dimIndex = source.dimIndex + 1
                 /\ <<source.value, target.value>> \in PairsOf(source.dimIndex)

\* C14 (as claimed, for datasets of positive weights): no two nodes have the
\* same id, an id belongs to one dimension and one value, the node map leads
\* from the id of every node to that node, no two links join the same two
\* nodes, and the records that a link retains carry the values of its source
\* node and of its target node
C14_IdentitiesUnique ==
    (Rendered /\ PositiveWeights) =>
        /\ \A m, n \in Indices(Nodes) :
             At(Nodes, m).id = At(Nodes, n).id =>
                 /\ m = n
                 /\ At(Nodes, m).dimIndex = At(Nodes, n).dimIndex
                 /\ At(Nodes, m).value = At(Nodes, n).value
        /\ \A n \in Indices(Nodes) :
             /\ At(Nodes, n).id \in DOMAIN BuildNodeMap(Nodes)
             /\ BuildNodeMap(Nodes)[At(Nodes, n).id] = n
        /\ \A i, j \in Indices(Links) :
             (At(Links, i).source = At(Links, j).source
                /\ At(Links, i).target = At(Links, j).target) => i = j
        /\ \A i \in Indices(Links) :
             \A r \in SetOfSeq(At(Links, i).records) :
                 matchesLink(At(csvData, r), Nodes, At(Links, i))

ZeroWeight(n) == NumEq(At(Nodes, n).totalValue, Zero)

ColumnTotal(d) == totalDimValue(Nodes, NodesByDim(Nodes, d))

\* C15 (as claimed): every coordinate of every node position and of every
\* link position is a finite number; a node of weight 0 and every node of a
\* column of total weight 0 has height 0, and the node after it in the
\* column starts at the same offset
C15_NoDivisionByZero ==
    Rendered =>
        /\ \A n \in Indices(Nodes) :
             /\ IsFinite(view.nodePositions[n].x)
             /\ IsFinite(view.nodePositions[n].y)
             /\ IsFinite(view.nodePositions[n].height)
        /\ \A i \in DOMAIN view.linkPositions :
             /\ IsFinite(view.linkPositions[i].sourceY)
             /\ IsFinite(view.linkPositions[i].targetY)
             /\ IsFinite(view.linkPositions[i].sourceHeight)
             /\ IsFinite(view.linkPositions[i].targetHeight)
        /\ \A d \in Indices(DimensionHeaders) :
             LET column == NodesByDim(Nodes, d)
             IN  \A k \in 1 .. Len(column) :
                    (ZeroWeight(column[k]) \/ NumEq(ColumnTotal(d), Zero)) =>
                        /\ NumEq(view.nodePositions[column[k]].height, Zero)
                        /\ k < Len(column) =>
                              NumEq(view.nodePositions[column[k + 1]].y,
                                    view.nodePositions[column[k]].y)

\* the comparator of the sort gives neither a positive nor a negative number
\* for the keys a and b
TieOnKey(a, b) ==
    /\ ~NumGt(NumSub(a, b), Zero)
    /\ ~NumLt(NumSub(a, b), Zero)

\* the outgoing links i < j of one node tie on their targets' y, and no
\* link of that node between them ties with both
TiedOutgoing(i, j) ==
    /\ i < j
    /\ At(Links, i).source = At(Links, j).source
    /\ TieOnKey(view.nodePositions[At(Links, i).target].y,
                view.nodePositions[At(Links, j).target].y)
    /\ ~\E k \in Indices(Links) : /\ i < k
                                  /\ k < j
                                  /\ At(Links, k).source = At(Links, i).source

\* the incoming links i < j of one node tie on their sources' y, and no
\* link of that node lies between them
TiedIncoming(i, j) ==
    /\ i < j
    /\ At(Links, i).target = At(Links, j).target
    /\ TieOnKey(view.nodePositions[At(Links, i).source].y,
                view.nodePositions[At(Links, j).source].y)
    /\ ~\E k \in Indices(Links) : /\ i < k
                                  /\ k < j
                                  /\ At(Links, k).target = At(Links, i).target

\* links that tie on the sort key are stacked in the order of the links
TiesInLinkOrder ==
    \A i, j \in Indices(Links) :
        /\ TiedOutgoing(i, j) =>
              view.linkPositions[j].sourceY
                 = NumAdd(view.linkPositions[i].sourceY, view.linkPositions[i].sourceHeight)
        /\ TiedIncoming(i, j) =>
              view.linkPositions[j].targetY
                 = NumAdd(view.linkPositions[i].targetY, view.linkPositions[i].targetHeight)

WellFormed(hdrs, line) ==
    /\ Len(line) = Len(hdrs)
    /\ \A d \in 1 .. (Len(hdrs) - 1) : line[d] # <<>>
    /\ ~IsNaN(parseFloat(line[Len(hdrs)]))

\* C18 (as claimed): a file with a header of two or more columns and a line
\* after it is loaded whatever its other lines are; the records are those of
\* its well-formed lines, in order, and the plot is the plot of these records;
\* a line that lacks a dimension value or has no number as its weight gives
\* no record
C18_MalformedDropped ==
    [][\A i \in 1 .. MaxPending :
          (readFileAsText(i) /\ Len(pending[i]) >= 2 /\ Len(pending[i][1]) >= 2) =>
              LET hdrs == pending[i][1]
                  kept == SelectSeq(Tail(pending[i]), LAMBDA l : WellFormed(hdrs, l))
                  records == SeqMap(LAMBDA l : MakeRecord(hdrs, l), kept)
              IN  /\ headers' = hdrs
                  /\ csvData' = records
                  /\ view' = generatePlot(records, hdrs)]_vars

\* the weight of node n
WeightOf(n) == At(Nodes, n).totalValue

\* the sum of the heights of the nodes of a column
ColumnHeights(column) ==
    SumNum(SeqMap(LAMBDA n : view.nodePositions[n].height, column))

\* C19: with D dimensions, a node of dimension d is at x = d * chartWidth /
\* (D - 1); in a column of n nodes of total weight T > 0 a node of weight w
\* has the height w / T * (chartHeight - (n - 1) * nodePadding), the first
\* node is at y = 0, every other node at the y of the node before it plus
\* that node's height plus nodePadding, in the order of the nodes, and the
\* heights and the paddings between them add up to chartHeight
C19_NodePositions ==
    Rendered =>
        \A d \in Indices(DimensionHeaders) :
            LET column == NodesByDim(Nodes, d)
                n == Len(column)
                T == SumNum(SeqMap(WeightOf, column))
                room == Int2Num(chartHeight - (n - 1) * nodePadding)
            IN  /\ \A k \in 1 .. n :
                      view.nodePositions[column[k]].x
                         = NumDiv(Int2Num(d * chartWidth),
                                  Int2Num(Len(DimensionHeaders) - 1))
                /\ NumGt(T, Zero) =>
                      /\ \A k \in 1 .. n :
                            view.nodePositions[column[k]].height
                               = NumDiv(NumMul(WeightOf(column[k]), room), T)
                      /\ n > 0 => view.nodePositions[column[1]].y = Zero
                      /\ \A k \in 2 .. n :
                            view.nodePositions[column[k]].y
                               = NumAdd(NumAdd(view.nodePositions[column[k - 1]].y,
                                               view.nodePositions[column[k - 1]].height),
                                        Int2Num(nodePadding))
                      /\ NumAdd(ColumnHeights(column), Int2Num((n - 1) * nodePadding))
                            = Int2Num(chartHeight)

\* a diagram of three dimensions that has a column of two nodes of
\* positive weight
C19_Witness ==
    /\ Rendered
    /\ Len(DimensionHeaders) = 3
    /\ \E d \in Indices(DimensionHeaders) :
          /\ Len(NodesByDim(Nodes, d)) = 2
          /\ \A k \in 1 .. 2 : NumGt(WeightOf(NodesByDim(Nodes, d)[k]), Zero)

NonNegativeWeights ==
    \A r \in Indices(csvData) : NumLe(Zero, At(csvData, r).count)

\* the orders in which the members of the set S can be listed
Orders(S) ==
    {o \in [1 .. Cardinality(S) -> S] :
        \A j, k \in 1 .. Cardinality(S) : o[j] = o[k] => j = k}

\* the links listed in order have spans of the lengths len that begin at
\* top and follow one another without gap or overlap, by ascending key
StackedFrom(top, order, start, len, key) ==
    /\ order # <<>> => NumEq(start[order[1]], top)
    /\ \A k \in 1 .. Len(order) : NumLe(Zero, len[order[k]])
    /\ \A k \in 2 .. Len(order) :
          /\ NumEq(start[order[k]], NumAdd(start[order[k - 1]], len[order[k - 1]]))
          /\ NumLe(key[order[k - 1]], key[order[k]])

\* C20 (as claimed, for datasets without negative weights): the outgoing
\* links of every node have source-side spans that begin at the node's y and
\* follow one another without gap or overlap in ascending order of the y of
\* their target nodes; its incoming links have such target-side spans in
\* ascending order of the y of their source nodes; every link has a position
\* whose sourceY and targetY are numbers
C20_LinkSpans ==
    (Rendered /\ NonNegativeWeights) =>
        /\ \A n \in Indices(Nodes) :
             /\ \E order \in Orders(SetOfSeq(OutgoingOf(n))) :
                   StackedFrom(view.nodePositions[n].y, order,
                               [i \in Indices(Links) |-> view.linkPositions[i].sourceY],
                               [i \in Indices(Links) |-> view.linkPositions[i].sourceHeight],
                               [i \in Indices(Links) |->
                                   view.nodePositions[At(Links, i).target].y])
             /\ \E order \in Orders(SetOfSeq(IncomingOf(n))) :
                   StackedFrom(view.nodePositions[n].y, order,
                               [i \in Indices(Links) |-> view.linkPositions[i].targetY],
                               [i \in Indices(Links) |-> view.linkPositions[i].targetHeight],
                               [i \in Indices(Links) |->
                                   view.nodePositions[At(Links, i).source].y])
        /\ DOMAIN view.linkPositions = Indices(Links)
        /\ \A i \in Indices(Links) :
             /\ IsFinite(view.linkPositions[i].sourceY)
             /\ IsFinite(view.linkPositions[i].targetY)

\* ------------------------------------------------------------------------
\* Hovering and clicking on one loaded dataset out of a pool
\* ------------------------------------------------------------------------
\* records of one Region/Product link that differ in Category and in the
\* sign of their weight, next to a second Region, a second Product and a
\* Region cell that contains the separator of the link key
HighlightRows ==
    {<<North, Laptop, c, w>> : c \in {CatA, CatB}, w \in CountCells}
    \cup {<<South, Laptop, CatA, <<"1">> >>, <<South, Phone, CatB, <<"1">> >>,
          <<ArrowValue, Phone, CatA, <<"1">> >>}

HighlightFiles ==
    {ScenarioFile}
    \cup {<< <<Region, Product, Category, Sales>> >> \o rows :
            rows \in SeqsUpTo(HighlightRows, MaxRecords)}

\* the state after the file f has been chosen, read and drawn
Loaded(f) ==
    LET r == parseCSV(f, <<>>)
    IN  /\ file = f
        /\ pending = <<>>
        /\ headers = r.headers
        /\ csvData = r.records
        /\ selectedNodes = {}
        /\ clickedNodes = {}
        /\ view = generatePlot(r.records, r.headers)
        /\ pointer = NoNode

InitHighlight == \E f \in HighlightFiles : Loaded(f)

NextHighlight ==
    \/ \E n \in NodeGroups : mouseenter(n)
    \/ \E n \in NodeGroups : mouseleave(n)
    \/ \E n \in NodeGroups : click(n)
    \/ clearAllSelections

SpecHighlight == InitHighlight /\ [][NextHighlight]_vars

\* ------------------------------------------------------------------------
\* Matching proportions and highlight directives
\* ------------------------------------------------------------------------
\* the values selected in dimension d
SelectedValues(sel, d) ==
    {At(Nodes, n).value : n \in {m \in sel : At(Nodes, m).dimIndex = d}}

\* OR inside a dimension, AND across the dimensions that have a selected node
RecordMatches(record, sel) ==
    \A d \in Indices(DimensionHeaders) :
        SelectedValues(sel, d) # {} =>
            CellOf(record, At(DimensionHeaders, d)) \in SelectedValues(sel, d)

\* the summed weight of the records that carry the link's two values and match
MatchedWeight(link, sel) ==
    SumNum(CountsAt(csvData,
        SelectSeq(RecordsOfEndpoints(link), LAMBDA r : RecordMatches(At(csvData, r), sel))))

Proportion(linkIndex) == linkProportions(csvData, Nodes, Links, selectedNodes, linkIndex)

AllProportions == [i \in 1 .. Len(Links) |-> Proportion(i - 1)]

Fresh == view.shown = ShownFor(view, csvData, selectedNodes)

C6_ProportionBounds ==
    (Rendered /\ PositiveWeights /\ selectedNodes # {}) =>
        \A i \in Indices(Links) :
            /\ NumLe(Zero, Proportion(i))
            /\ NumLe(Proportion(i), One)
            /\ (\A r \in SetOfSeq(At(Links, i).records) :
                    RecordMatches(At(csvData, r), selectedNodes))
                 => NumEq(Proportion(i), One)

\* the directive the claim assigns to each .link element of v under sel
DirectiveOK(v, data, sel) ==
    \A index \in Indices(v.elements) :
        LET sh == v.shown[index + 1]
            pr == linkProportions(data, v.nodeData.nodes, v.nodeData.links, sel, index)
        IN  IF sel = {} THEN sh = BaseShown
            ELSE /\ NumEq(pr, Zero) => sh = [BaseShown EXCEPT !.fill = "faded"]
                 /\ NumGt(pr, Zero) => Len(sh.gold) = 1
                 /\ Len(sh.gray) = 1 <=> (NumGt(pr, Zero) /\ NumLt(pr, One))
                 /\ Len(sh.gray) <= 1

\* C7 (as claimed): a handler that recomputes the highlights leaves every
\* link neutral under an empty selection, faded without overlay at
\* proportion 0, with a matched overlay at a positive proportion and with an
\* unmatched overlay iff 0 < proportion < 1
C7_DirectiveByProportion ==
    [][(\E n \in NodeGroups : mouseenter(n) \/ click(n))
          => DirectiveOK(view', csvData', selectedNodes')]_vars

Between(a, x, b) == (NumLe(a, x) /\ NumLe(x, b)) \/ (NumLe(b, x) /\ NumLe(x, a))

\* C8 (as claimed, for datasets of positive weights): the matched region of
\* a split link runs from the link's top edge to top + proportion x height on
\* either side, the unmatched region from there to the bottom edge, and the
\* two regions make up the footprint that the layout gave the link
C8_SplitCoversFootprint ==
    (Rendered /\ PositiveWeights /\ Fresh) =>
        \A index \in Indices(view.elements) :
            LET sh == view.shown[index + 1]
                lp == view.linkPositions[At(view.elements, index).linkIndex]
                pr == Proportion(index)
                sourceBottom == NumAdd(lp.sourceY, lp.sourceHeight)
                targetBottom == NumAdd(lp.targetY, lp.targetHeight)
                sourceSplit == NumAdd(lp.sourceY, NumMul(pr, lp.sourceHeight))
                targetSplit == NumAdd(lp.targetY, NumMul(pr, lp.targetHeight))
            IN  Len(sh.gold) = 1 =>
                  /\ NumEq(sh.gold[1].sourceY1.value, lp.sourceY)
                  /\ NumEq(sh.gold[1].targetY1.value, lp.targetY)
                  /\ NumEq(sh.gold[1].sourceY2.value, sourceSplit)
                  /\ NumEq(sh.gold[1].targetY2.value, targetSplit)
                  /\ Between(lp.sourceY, sourceSplit, sourceBottom)
                  /\ Between(lp.targetY, targetSplit, targetBottom)
                  /\ IF Len(sh.gray) = 1
                     THEN /\ NumEq(sh.gray[1].sourceY1.value, sourceSplit)
                          /\ NumEq(sh.gray[1].targetY1.value, targetSplit)
                          /\ NumEq(sh.gray[1].sourceY2.value, sourceBottom)
                          /\ NumEq(sh.gray[1].targetY2.value, targetBottom)
                     ELSE /\ sh.gray = <<>>
                          /\ NumEq(sourceSplit, sourceBottom)
                          /\ NumEq(targetSplit, targetBottom)

\* ------------------------------------------------------------------------
\* Frame conditions of hovering, layout and highlighting
\* ------------------------------------------------------------------------
\* hovering and clicking on the scenario dataset or on the dataset of
\* three dimensions
\* three dimensions, a record of weight 0 on a link it shares with another
ZeroWeightFile ==
    << <<Region, Product, Category, Sales>>,
       <<North, Laptop, <<"a">>, <<"0">> >>,
       <<North, Laptop, <<"b">>, <<"1">> >>,
       <<South, Phone, <<"a">>, <<"2">> >> >>

HoverFiles == {ScenarioFile, ThreeDimFile, ZeroWeightFile}

InitHover == \E f \in HoverFiles : Loaded(f)

SpecHover == InitHover /\ [][NextHighlight]_vars

\* C21: the pointer entering or leaving a node leaves the pinned set as it
\* is: no pinned node is unpinned and no node becomes pinned
C21_HoverKeepsPinned ==
    [][(\E n \in NodeGroups : mouseenter(n) \/ mouseleave(n))
          => clickedNodes' = clickedNodes]_vars

\* the pointer is over a node that is not pinned while another node is
C21_Witness ==
    /\ pointer \in NodeGroups
    /\ pointer \notin clickedNodes
    /\ pointer \in selectedNodes
    /\ clickedNodes # {}

\* the nodes and links of the diagram are the aggregation of the records
AggregationOf(v, data, hdrs) ==
    LET full == prepareSankeyData(data, DimensionHeadersOf(hdrs))
    IN  /\ v.nodeData.nodes = full.nodes
        /\ v.nodeData.links = full.links

\* a step changes nothing of the dataset and of the diagram but what the
\* links show
OnlyShownChanges ==
    /\ csvData' = csvData
    /\ headers' = headers
    /\ view'.kind = view.kind
    /\ view'.nodeData = view.nodeData
    /\ view'.nodePositions = view.nodePositions
    /\ view'.linkPositions = view.linkPositions
    /\ view'.elements = view.elements

RetainedMatchedWeight(link, sel) ==
    SumNum(CountsAt(csvData,
        SelectSeq(link.records,
                  LAMBDA r : matchesSelection(At(csvData, r),
                                              selectedByDimension(Nodes, sel)))))

\* C23 (as claimed, for datasets of positive weights): under every
\* selection, the matched weight that the highlighting computes for a link
\* by filtering all records on the values of the link's two nodes and on
\* the selection is the matched weight of the records the link retains
C23_FilterEqualsRetained ==
    (Rendered /\ PositiveWeights /\ selectedNodes # {}) =>
        \A i \in Indices(Links) :
            matchingCount(csvData, Nodes, At(Links, i),
                          selectedByDimension(Nodes, selectedNodes))
               = RetainedMatchedWeight(At(Links, i), selectedNodes)

\* C24 (as claimed): a read whose text has fewer than 2 lines or a header
\* of fewer than 2 columns leaves the headers and the records of the
\* dataset loaded before as they were
C24_FailedLoadKeepsDataset ==
    [][\A i \in 1 .. MaxPending :
          (readFileAsText(i) /\ csvData # <<>> /\ ~parseCSV(pending[i], headers).ok) =>
              /\ headers' = headers
              /\ csvData' = csvData]_vars

\* C25: the pinned nodes are among the selected nodes
C25_PinnedAreSelected == clickedNodes \subseteq selectedNodes

\* a node is pinned and another node is selected by the pointer only
C25_Witness ==
    /\ clickedNodes # {}
    /\ pointer \in selectedNodes
    /\ pointer \notin clickedNodes

\* C26 (as claimed): while a diagram is shown, every selected and every
\* pinned index is the index of one of its nodes, so that the recomputation
\* of the highlights finds a node for each of them
C26_SelectionsAreNodes ==
    Rendered =>
        /\ selectedNodes \subseteq Indices(Nodes)
        /\ clickedNodes \subseteq Indices(Nodes)
        /\ ~SelectionThrows(Nodes, selectedNodes)

\* ------------------------------------------------------------------------
\* Clearing while a read is pending
\* ------------------------------------------------------------------------
\* the application without the choice of no file: the file input is empty
\* only at the start and after clearData
NextClear ==
    \/ \E f \in Files : handleFileSelect(f)
    \/ processCSV
    \/ \E i \in 1 .. MaxPending : readFileAsText(i)
    \/ clearData
    \/ \E n \in NodeGroups : mouseenter(n)
    \/ \E n \in NodeGroups : mouseleave(n)
    \/ \E n \in NodeGroups : click(n)
    \/ clearAllSelections

SpecClear == InitApp /\ [][NextClear]_vars

\* C27 (as claimed): when a read completes after clearData has emptied the
\* file input, the records and the plot container, and no file has been
\* chosen since, no records are stored and the container keeps its placeholder
C27_ClearedStaysCleared ==
    [][\A i \in 1 .. MaxPending :
          (readFileAsText(i) /\ file = NoFile /\ csvData = <<>> /\ view = Placeholder) =>
              /\ csvData' = <<>>
              /\ view' = Placeholder]_vars

\* ------------------------------------------------------------------------
\* The vertical range of the nodes
\* ------------------------------------------------------------------------
\* every node has numbers as its y and its height
FinitePositions ==
    \A n \in Indices(Nodes) :
        /\ IsFinite(view.nodePositions[n].y)
        /\ IsFinite(view.nodePositions[n].height)

\* C28 (as claimed, for the diagrams whose node positions are numbers):
\* no node has a negative height, and every node lies between 0 and
\* chartHeight
C28_NodesInsideChart ==
    (Rendered /\ FinitePositions) =>
        \A n \in Indices(Nodes) :
            /\ NumLe(Zero, view.nodePositions[n].height)
            /\ NumLe(Zero, view.nodePositions[n].y)
            /\ NumLe(NumAdd(view.nodePositions[n].y, view.nodePositions[n].height),
                     Int2Num(chartHeight))

\* ------------------------------------------------------------------------
\* Overlays and proportions under a growing selection
\* ------------------------------------------------------------------------
\* what the links show after one more recomputation under the same selection
ShownAgain == ShownFor(view, csvData, selectedNodes)

\* what they show after yet another one
ShownTwice == ShownFor([view EXCEPT !.shown = ShownAgain], csvData, selectedNodes)

\* C29: every link shows at most one matched and at most one unmatched
\* overlay, whatever was recomputed before; a recomputation of the
\* highlights under the selection of the last one shows what it showed,
\* and so does every further one
C29_OverlaysDoNotAccumulate ==
    Rendered =>
        /\ \A i \in 1 .. Len(view.shown) :
             /\ Len(view.shown[i].gold) <= 1
             /\ Len(view.shown[i].gray) <= 1
        /\ \A i \in 1 .. Len(ShownAgain) :
             /\ Len(ShownAgain[i].gold) <= 1
             /\ Len(ShownAgain[i].gray) <= 1
        /\ Fresh => ShownAgain = view.shown
        /\ ShownTwice = ShownAgain

\* two nodes are selected, so that the highlights have been recomputed over
\* the overlays of an earlier recomputation, and a link shows both overlays
C29_Witness ==
    /\ Rendered
    /\ Fresh
    /\ Cardinality(selectedNodes) >= 2
    /\ \E i \in 1 .. Len(view.shown) :
          Len(view.shown[i].gold) = 1 /\ Len(view.shown[i].gray) = 1

\* the dimension of node n has a selected node
DimensionSelected(n) ==
    \E m \in selectedNodes : At(Nodes, m).dimIndex = At(Nodes, n).dimIndex

\* the proportion of a link once node n has joined the selection
ProportionWith(n, linkIndex) ==
    linkProportions(csvData, Nodes, Links, selectedNodes \cup {n}, linkIndex)

\* C30: with weights that are not negative and a selection that is not
\* empty, a node joining the selection in a dimension that has a selected
\* node lowers the proportion of no link, and a node joining it in a
\* dimension that has none raises the proportion of no link
C30_ProportionsMonotone ==
    (Rendered /\ NonNegativeWeights /\ selectedNodes # {}) =>
        \A n \in Indices(Nodes) \ selectedNodes :
            \A i \in Indices(Links) :
                IF DimensionSelected(n)
                THEN NumLe(Proportion(i), ProportionWith(n, i))
                ELSE NumLe(ProportionWith(n, i), Proportion(i))

\* a selection that the pointer has just grown, with a node left whose
\* dimension is selected and raises a proportion, and a node left whose
\* dimension is not and lowers one
C30_Witness ==
    /\ Rendered
    /\ NonNegativeWeights
    /\ Cardinality(selectedNodes) >= 2
    /\ pointer \in selectedNodes
    /\ \E n \in Indices(Nodes) \ selectedNodes : \E i \in Indices(Links) :
          DimensionSelected(n) /\ NumLt(Proportion(i), ProportionWith(n, i))
    /\ \E n \in Indices(Nodes) \ selectedNodes : \E i \in Indices(Links) :
          ~DimensionSelected(n) /\ NumLt(ProportionWith(n, i), Proportion(i))

====
